---- MODULE Spec2Model ----
(***************************************************************************)
(* Order conversation of the water-delivery bot                            *)
(* (src/telegram_bot/main.py, src/telegram_bot/services.py).               *)
(*                                                                         *)
(* State: the in-memory session map WaterBusinessBot.user_states, the      *)
(* tables the services read and write (users, products, addresses,         *)
(* orders, deliveries), the clock, the last message shown to each user and *)
(* the commit handlers that are suspended at an await.                     *)
(*                                                                         *)
(* Every branch of order_callback_handler other than the commit is one     *)
(* action.  The commit (main.py 1411-1453) is split at its awaits on the   *)
(* services, so that a second handler can run while the first is           *)
(* suspended.                                                              *)
(***************************************************************************)
EXTENDS Integers, Sequences, FiniteSets, TLC

VARIABLES
    user_states,     \* WaterBusinessBot.user_states: key -> session dict
    users,           \* users table: telegram id -> row id (users.id)
    loyalty_points,  \* users.loyalty_points, by row id
    stock,           \* products.stock_quantity, by product id
    addresses,       \* addresses table: row id of the user -> address ids
    orders,          \* orders table, in insertion order
    deliveries,      \* deliveries table, in insertion order
    couriers,        \* row ids of the users whose role is 'delivery'
    now,             \* the clock, in hours since 00:00 of the day of start
    reply,           \* telegram id -> key of the last text sent to the user
    answered,        \* the last update a handler took: who sent it, its data
    tasks,           \* commit handlers in flight
    subscriptions,   \* subscriptions table, in insertion order
    notified,        \* ids of the subscriptions the last sweep called notify_renewal for
    fee_call,        \* a call of calculate_delivery_fee: its arguments, its outcome
    user_data        \* context.user_data of the one user of bot.py

vars == <<user_states, users, loyalty_points, stock, addresses, orders,
          deliveries, couriers, now, reply, answered, tasks, subscriptions,
          notified, fee_call, user_data>>

----------------------------------------------------------------------------
(* Bounds of the model *)

MaxCart == 2        \* line items in one cart
MaxQty == 2         \* largest quantity a quantity button carries
MaxOrders == 1      \* rows of the orders table, one user talking

(* Telegram ids of the users, and the row ids the users table may give them *)
TelegramIds == {1, 2}
UserTables == { [u \in TelegramIds |-> u], [u \in TelegramIds |-> u + 1] }
RowIds == {1, 2, 3}
Keys == TelegramIds \cup RowIds

(* the sets of users with role = 'delivery' (row ids) the model starts from *)
CourierTables == { {11}, {11, 12} }

(* commit handlers that can be in flight at once *)
TaskIds == {1, 2}

Products == {1, 2}
UnknownProduct == 9
Quantities == 1..MaxQty
AddressIds == {1}
PaymentMethods == {"cash", "card", "loyalty"}
RichPoints == 20000

----------------------------------------------------------------------------
(* products table *)

ProductPrice == [p \in Products |-> IF p = 1 THEN 9 ELSE 4]

NoProduct == [id |-> 0, price |-> 0]

(* ProductService.get_product_by_id: the row, or None *)
get_product_by_id(p) ==
    IF p \in Products THEN [id |-> p, price |-> ProductPrice[p]] ELSE NoProduct

----------------------------------------------------------------------------
(* Cart *)

RECURSIVE SumItems(_)
(* sum(item['price']*item['quantity'] for item in cart) *)
SumItems(cart) ==
    IF cart = <<>> THEN 0
    ELSE Head(cart).price * Head(cart).quantity + SumItems(Tail(cart))

(* the total line of get_cart_text *)
get_cart_total(cart) == SumItems(cart)

(* a cart that merges a repeated product into its last line *)
cart_append_merging(cart, product, qty) ==
    IF cart # <<>> /\ cart[Len(cart)].id = product.id
    THEN [cart EXCEPT ![Len(cart)].quantity = @ + qty]
    ELSE Append(cart, [id |-> product.id, price |-> product.price, quantity |-> qty])

(* cart.append({...}) of the quantity step *)
cart_append(cart, product, qty) ==
    Append(cart, [id |-> product.id, price |-> product.price, quantity |-> qty])

----------------------------------------------------------------------------
(* Delivery slots (DeliveryService) *)

LookaheadDays == 7
FirstHour == 9
EndHour == 18
SlotHours == 2
HoursPerDay == 24
SlotsPreview == 20
SlotsShown == 5

(* A slot id is the text "DD.MM.YYYY HH:00-HH:00".  It is kept as the list *)
(* of its space-separated words, which is what slot_id.split(' ') returns. *)
(* A word is a date, an hour range "HH:00-HH:00", a bare number or junk.   *)
DateWord(day) == [k |-> "date", a |-> day, b |-> 0]
RangeWord(hour) == [k |-> "range", a |-> hour, b |-> hour + SlotHours]
IntWord(n) == [k |-> "int", a |-> n, b |-> 0]
JunkWord == [k |-> "junk", a |-> 0, b |-> 0]

slot_id_of(day, hour) == << DateWord(day), RangeWord(hour) >>

NoSlotId == <<>>

(* DeliveryService._generate_time_slots, run on day base_day *)
generate_time_slots(base_day) ==
    LET perDay == EndHour - FirstHour
    IN  [i \in 1..(LookaheadDays * perDay) |->
            LET day == base_day + ((i - 1) \div perDay)
                hour == FirstHour + ((i - 1) % perDay)
                start == day * HoursPerDay + hour
            IN  [slot_id |-> slot_id_of(day, hour),
                 start_time |-> start,
                 end_time |-> start + SlotHours,
                 available |-> TRUE]]

(* self.time_slots: generated once, when the service is constructed on day 0 *)
time_slots == generate_time_slots(0)

(* the first n elements: seq[:n] *)
Take(seq, n) == SubSeq(seq, 1, IF Len(seq) < n THEN Len(seq) ELSE n)

(* the booked set of get_available_slots: delivery_time_slot of every order *)
(* that is neither delivered nor cancelled                                  *)
booked_slot_ids(ords) ==
    { ords[i].delivery_time_slot :
        i \in { j \in 1..Len(ords) :
                  ords[j].status # "delivered" /\ ords[j].status # "cancelled" } }

(* a lookup that keeps the slot starting at this very hour *)
get_available_slots_from_now(ords, clock) ==
    LET booked == booked_slot_ids(ords)
        free(slot) == slot.slot_id \notin booked /\ slot.start_time >= clock
    IN  Take(SelectSeq(time_slots, free), SlotsPreview)

(* DeliveryService.get_available_slots *)
get_available_slots(ords, clock) ==
    LET booked == booked_slot_ids(ords)
        free(slot) == slot.slot_id \notin booked /\ slot.start_time > clock
    IN  Take(SelectSeq(time_slots, free), SlotsPreview)

----------------------------------------------------------------------------
(* Delivery fee (DeliveryService.calculate_delivery_fee) *)

BaseFee == 5000
FeePerKm == 500
DefaultFee == 10000

(* A location is a point of a line, in km; BadLocation is a dict with a    *)
(* coordinate missing or not a valid number.                               *)
BadLocation == -1

geodesic_km(a, b) == IF a < b THEN b - a ELSE a - b

(* the outcome of a block that raised *)
Raised == -2

(* the try block (services.py 272-281): the subscript or geodesic raises   *)
(* on a bad location, or somewhere else when fails is true                 *)
fee_try(user_location, warehouse_location, fails) ==
    IF fails \/ user_location = BadLocation \/ warehouse_location = BadLocation
    THEN Raised
    ELSE BaseFee + FeePerKm * geodesic_km(user_location, warehouse_location)

(* the try block with no except branch: the error goes up to the caller *)
fee_or_raise(body) ==
    body

(* except Exception: return Decimal('10000') (services.py 282-284) *)
fee_or_default(body) ==
    IF body = Raised THEN DefaultFee ELSE body

calculate_delivery_fee(user_location, warehouse_location) ==
    fee_or_default(fee_try(user_location, warehouse_location, FALSE))

(* no call of calculate_delivery_fee made yet *)
NoFeeCall == [user_location |-> 0, warehouse_location |-> 0, fails |-> FALSE,
              outcome |-> "none", fee |-> 0]

(* the two locations the address step passes: the same hard-coded point *)
HandlerUserLocation == 0
HandlerWarehouseLocation == 0

----------------------------------------------------------------------------
(* context.user_data of bot.py: the keys the order flow of bot.py writes.  *)
(* quantity 0 and product 0 stand for an absent key.                       *)

NoUserData == [selected_product |-> 0, quantity |-> 0,
               awaiting_custom_quantity |-> FALSE, delivery_time |-> ""]

----------------------------------------------------------------------------
(* Sessions *)

NoFee == -1
NoDate == -1
NoTimeSlot == <<>>
DefaultTimeSlot == <<9, 11>>

(* user_states.get(user_id, {}) when the key is absent *)
NoSession ==
    [state |-> "", cart |-> <<>>, selected_product |-> NoProduct,
     selected_address_id |-> 0, delivery_fee |-> NoFee, slots |-> <<>>,
     selected_slot |-> NoSlotId, delivery_date |-> NoDate,
     time_slot |-> NoTimeSlot, payment_method |-> "", card_paid |-> "absent",
     product_id |-> 0, frequency_days |-> 0]

(* the dict order_command stores *)
NewOrderSession == [NoSession EXCEPT !.state = "select_product"]

(* state.get('delivery_fee', 0) *)
fee_of(s) == IF s.delivery_fee = NoFee THEN 0 ELSE s.delivery_fee

(* the total of the Confirm summary and of the commit *)
summary_total(s) == SumItems(s.cart) + fee_of(s)

Today == now \div HoursPerDay

(* A commit handler suspended at an await: its position, the user it runs  *)
(* for, its reference to the session dict, the order row it got back.      *)
NoTask == [pc |-> "idle", user |-> 0, sess |-> NoSession, order |-> 0, courier |-> 0]

(* the handler's local `total` (main.py 1418) *)
task_total(t) == summary_total(t.sess)

FreeTask == CHOOSE i \in TaskIds :
                tasks[i].pc = "idle" /\ \A j \in TaskIds : tasks[j].pc = "idle" => i <= j

SomeTaskFree == \E i \in TaskIds : tasks[i].pc = "idle"

(* handlers that are about to insert an order row *)
pending_creates == Cardinality({ i \in TaskIds : tasks[i].pc = "create_order" })

Say(u, text) == reply' = [reply EXCEPT ![u] = text]

----------------------------------------------------------------------------
(* /order *)

(* order_command: the session is stored under the row id of the user *)
order_command(u, allowed) ==
    IF ~allowed
    THEN /\ Say(u, "rate_limited")
         /\ UNCHANGED user_states
    ELSE /\ user_states' = [user_states EXCEPT ![users[u]] = NewOrderSession]
         /\ Say(u, "select_product")

OrderCommand(u, allowed) ==
    /\ order_command(u, allowed)
    /\ UNCHANGED <<users, subscriptions, notified, loyalty_points, stock, addresses, orders, deliveries,
                   couriers, now, answered, tasks,
                   fee_call, user_data>>

----------------------------------------------------------------------------
(* order_callback_handler: the session is read under the telegram id *)

session_of(u) == user_states[u]

Store(u, s) == user_states' = [user_states EXCEPT ![u] = s]

DbSame == UNCHANGED <<users, subscriptions, notified, loyalty_points, stock, addresses, orders,
                      deliveries, couriers, now,
                   fee_call, user_data>>

(* await query.answer() *)
Answer(u, kind) == answered' = [user |-> u, kind |-> kind]

(* a handler that starts a new draft for a user who has none *)
SessionRestarted(u, kind) ==
    /\ session_of(u) = NoSession
    /\ Answer(u, kind)
    /\ Store(u, NewOrderSession)
    /\ Say(u, "session_expired")
    /\ UNCHANGED tasks
    /\ DbSame

(* main.py 1261-1263 *)
SessionExpired(u, kind) ==
    /\ session_of(u) = NoSession
    /\ Answer(u, kind)
    /\ Say(u, "session_expired")
    /\ UNCHANGED <<user_states, tasks>>
    /\ DbSame

(* main.py 1264-1280 *)
SelectProduct(u, p) ==
    /\ Answer(u, "order_product")
    /\ session_of(u).state = "select_product"
    /\ LET product == get_product_by_id(p)
       IN  IF product = NoProduct
           THEN /\ Say(u, "no_products")
                /\ UNCHANGED user_states
           ELSE /\ Store(u, [session_of(u) EXCEPT !.selected_product = product,
                                                  !.state = "select_quantity"])
                /\ Say(u, "select_quantity")
    /\ UNCHANGED tasks
    /\ DbSame

(* a quantity step that does not look at the state of the session *)
SelectQuantityInAnyState(u, qty) ==
    /\ Answer(u, "order_qty")
    /\ session_of(u) # NoSession
    /\ Len(session_of(u).cart) < MaxCart
    /\ LET s == session_of(u)
       IN  Store(u, [s EXCEPT !.cart = cart_append(s.cart, s.selected_product, qty),
                              !.state = "cart"])
    /\ Say(u, "cart")
    /\ UNCHANGED tasks
    /\ DbSame

(* main.py 1281-1303 *)
SelectQuantity(u, qty) ==
    /\ Answer(u, "order_qty")
    /\ session_of(u).state = "select_quantity"
    /\ Len(session_of(u).cart) < MaxCart
    /\ LET s == session_of(u)
       IN  Store(u, [s EXCEPT !.cart = cart_append(s.cart, s.selected_product, qty),
                              !.state = "cart"])
    /\ Say(u, "cart")
    /\ UNCHANGED tasks
    /\ DbSame

(* an 'add more' that drops the last line of the cart *)
AddMoreDroppingLast(u) ==
    /\ Answer(u, "order_add_more")
    /\ session_of(u).state = "cart"
    /\ Store(u, [session_of(u) EXCEPT
              !.cart = SubSeq(@, 1, Len(@) - 1),
              !.state = "select_product"])
    /\ Say(u, "select_product")
    /\ UNCHANGED tasks
    /\ DbSame

(* main.py 1305-1316 *)
AddMore(u) ==
    /\ Answer(u, "order_add_more")
    /\ session_of(u).state = "cart"
    /\ Store(u, [session_of(u) EXCEPT !.state = "select_product"])
    /\ Say(u, "select_product")
    /\ UNCHANGED tasks
    /\ DbSame

(* a 'proceed' that does not look for a saved address *)
ProceedWithoutAddress(u) ==
    /\ Answer(u, "order_delivery")
    /\ session_of(u).state = "cart"
    /\ Store(u, [session_of(u) EXCEPT !.state = "SELECT_ADDRESS"])
    /\ Say(u, "select_address")
    /\ UNCHANGED tasks
    /\ DbSame

(* main.py 1317-1333 *)
ProceedToDelivery(u) ==
    /\ Answer(u, "order_delivery")
    /\ session_of(u).state = "cart"
    /\ IF addresses[users[u]] = {}
       THEN /\ Say(u, "no_addresses")
            /\ UNCHANGED user_states
       ELSE /\ Store(u, [session_of(u) EXCEPT !.state = "SELECT_ADDRESS"])
            /\ Say(u, "select_address")
    /\ UNCHANGED tasks
    /\ DbSame

(* main.py 1334-1336 *)
CancelInCart(u) ==
    /\ Answer(u, "order_cancel")
    /\ session_of(u).state = "cart"
    /\ Store(u, NoSession)
    /\ Say(u, "order_cancelled")
    /\ UNCHANGED tasks
    /\ DbSame

(* main.py 1337-1363 *)
SelectAddress(u, addr_id) ==
    /\ Answer(u, "select_addr")
    /\ session_of(u).state = "SELECT_ADDRESS"
    /\ LET fee == calculate_delivery_fee(HandlerUserLocation, HandlerWarehouseLocation)
           slots == get_available_slots(orders, now)
           picked == [session_of(u) EXCEPT !.selected_address_id = addr_id,
                                           !.state = "delivery_slot"]
       IN  IF slots = <<>>
           THEN /\ Store(u, picked)
                /\ Say(u, "no_delivery_slots")
           ELSE /\ Store(u, [picked EXCEPT !.delivery_fee = fee, !.slots = slots])
                /\ Say(u, "select_delivery_slot")
    /\ UNCHANGED tasks
    /\ DbSame

(* the try block of main.py 1368-1371: two words, a date, then int(hour_str) *)
slot_parses(slot_id) ==
    /\ Len(slot_id) = 2
    /\ slot_id[1].k = "date"
    /\ slot_id[2].k = "int"

(* main.py 1364-1389 *)
SelectSlot(u, slot_id) ==
    /\ Answer(u, "order_slot")
    /\ session_of(u).state = "delivery_slot"
    /\ LET ok == slot_parses(slot_id)
       IN  Store(u, [session_of(u) EXCEPT
                 !.selected_slot = slot_id,
                 !.delivery_date = IF ok THEN slot_id[1].a ELSE Today,
                 !.time_slot = IF ok THEN <<slot_id[2].a, slot_id[2].a + 2>>
                                     ELSE DefaultTimeSlot,
                 !.state = "payment_method"])
    /\ Say(u, "choose_payment_method")
    /\ UNCHANGED tasks
    /\ DbSame

(* main.py 1390-1410 *)
SelectPayment(u, payment_method) ==
    /\ Answer(u, "order_pay")
    /\ session_of(u).state = "payment_method"
    /\ Store(u, [session_of(u) EXCEPT !.payment_method = payment_method,
                                      !.state = "confirm"])
    /\ Say(u, "order_summary")
    /\ UNCHANGED tasks
    /\ DbSame

(* main.py 1454-1456 *)
CancelInConfirm(u) ==
    /\ Answer(u, "order_cancel")
    /\ session_of(u).state = "confirm"
    /\ Store(u, NoSession)
    /\ Say(u, "order_cancelled")
    /\ UNCHANGED tasks
    /\ DbSame

(* the kinds of callback data each state of the conversation acts on *)
Accepts(state) ==
    CASE state = "select_product" -> {"order_product"}
      [] state = "select_quantity" -> {"order_qty"}
      [] state = "cart" -> {"order_add_more", "order_delivery", "order_cancel"}
      [] state = "SELECT_ADDRESS" -> {"select_addr"}
      [] state = "delivery_slot" -> {"order_slot"}
      [] state = "payment_method" -> {"order_pay"}
      [] state = "confirm" -> {"order_confirm", "order_cancel"}
      [] OTHER -> {}

DataKinds == {"order_product", "order_qty", "order_add_more", "order_delivery",
              "order_cancel", "select_addr", "order_slot", "order_pay",
              "order_confirm"}

(* callback data no branch of the current state matches: only query.answer() *)
Ignored(u, kind) ==
    /\ session_of(u) # NoSession
    /\ kind \notin Accepts(session_of(u).state)
    /\ Answer(u, kind)
    /\ UNCHANGED <<user_states, reply, tasks>>
    /\ DbSame

(* The text 'paid'.  The branch of order_callback_handler for the state    *)
(* 'CARD_PAYMENT_CONFIRM' (main.py 1457-1465) is never taken: no statement *)
(* stores that state.  A text message goes to edit_profile_message_handler *)
(* (main.py 1717, 2261-2306), which has no branch for a session of the     *)
(* order conversation and leaves it as it is.                              *)
PaidText(u) ==
    /\ session_of(u).state \notin {"edit_first_name", "add_address_label"}
    /\ answered' = [user |-> u, kind |-> "text_paid"]
    /\ UNCHANGED <<user_states, reply, tasks>>
    /\ DbSame

----------------------------------------------------------------------------
(* The commit: 'order_confirm' in the Confirm state (main.py 1411-1453) *)

RECURSIVE in_stock(_, _)
(* the stock check loop of main.py 1420-1424 *)
in_stock(cart, stk) ==
    IF cart = <<>> THEN TRUE
    ELSE IF stk[Head(cart).id] < Head(cart).quantity THEN FALSE
    ELSE in_stock(Tail(cart), stk)

(* main.py 1412-1430: up to the first await of the try block *)
ConfirmBegin(u) ==
    /\ Answer(u, "order_confirm")
    /\ session_of(u).state = "confirm"
    /\ LET s == session_of(u)
       IN  IF ~in_stock(s.cart, stock)
           THEN /\ Say(u, "out_of_stock")
                /\ UNCHANGED <<user_states, tasks>>
           ELSE IF s.payment_method = "card" /\ s.card_paid # "true"
           THEN /\ Store(u, [s EXCEPT !.card_paid = "false"])
                /\ Say(u, "card_payment_confirm")
                /\ UNCHANGED tasks
           ELSE /\ SomeTaskFree
                /\ tasks' = [tasks EXCEPT ![FreeTask] =
                       [pc |-> "create_order", user |-> u, sess |-> s,
                        order |-> 0, courier |-> 0]]
                /\ UNCHANGED <<user_states, reply>>
    /\ DbSame

(* OrderService.create_order (services.py 760-792) *)
create_order(ords, user_id, items, delivery_address_id, payment_method) ==
    Append(ords,
        [id |-> Len(ords) + 1,
         user_id |-> user_id,
         status |-> "pending",
         total_amount |-> SumItems(items),
         delivery_fee |-> 0,
         delivery_address_id |-> delivery_address_id,
         payment_method |-> payment_method,
         items |-> items,
         delivery_time_slot |-> NoSlotId])

(* main.py 1432; the except branch of 1450-1452 when create_order raises *)
CreateOrder(i, ok) ==
    /\ tasks[i].pc = "create_order"
    /\ LET t == tasks[i]
       IN  IF ok
           THEN /\ orders' = create_order(orders, users[t.user], t.sess.cart,
                                          t.sess.selected_address_id,
                                          t.sess.payment_method)
                /\ tasks' = [tasks EXCEPT ![i].pc = "schedule",
                                          ![i].order = Len(orders) + 1]
                /\ UNCHANGED reply
           ELSE /\ Say(t.user, "order_error")
                /\ tasks' = [tasks EXCEPT ![i].pc = "del"]
                /\ UNCHANGED orders
    /\ UNCHANGED <<user_states, users, subscriptions, notified, loyalty_points, stock, addresses,
                   deliveries, couriers, now, answered,
                   fee_call, user_data>>

(* the query with IN for NOT IN: the delivery persons busy in the bracket *)
busy_couriers(delivery_date, time_slot) ==
    { c \in couriers :
        \E k \in 1..Len(deliveries) :
            /\ deliveries[k].delivery_person_id = c
            /\ deliveries[k].scheduled_date = delivery_date
            /\ deliveries[k].scheduled_time_slot = time_slot }

(* the delivery persons the query of services.py 291-300 can return *)
free_couriers(delivery_date, time_slot) ==
    { c \in couriers :
        \A k \in 1..Len(deliveries) :
            ~ (/\ deliveries[k].delivery_person_id = c
               /\ deliveries[k].scheduled_date = delivery_date
               /\ deliveries[k].scheduled_time_slot = time_slot) }

after_schedule(t) == IF t.sess.payment_method = "cash" THEN "points" ELSE "payment"

(* schedule_delivery, services.py 288-304 and 323-325: no delivery person, *)
(* or an error, returns False, which the handler does not look at          *)
ScheduleFind(i, ok) ==
    /\ tasks[i].pc = "schedule"
    /\ LET t == tasks[i]
           free == free_couriers(t.sess.delivery_date, t.sess.time_slot)
       IN  IF ok /\ free # {}
           THEN \E c \in free :
                    tasks' = [tasks EXCEPT ![i].pc = "schedule_insert",
                                           ![i].courier = c]
           ELSE tasks' = [tasks EXCEPT ![i].pc = after_schedule(t)]
    /\ UNCHANGED <<user_states, reply, answered>>
    /\ DbSame

set_status(ords, order_id, status) ==
    [k \in 1..Len(ords) |->
        IF ords[k].id = order_id THEN [ords[k] EXCEPT !.status = status]
        ELSE ords[k]]

(* schedule_delivery, services.py 306-321 *)
ScheduleInsert(i) ==
    /\ tasks[i].pc = "schedule_insert"
    /\ LET t == tasks[i]
       IN  /\ deliveries' = Append(deliveries,
                  [order_id |-> t.order,
                   delivery_person_id |-> t.courier,
                   scheduled_date |-> t.sess.delivery_date,
                   scheduled_time_slot |-> t.sess.time_slot,
                   status |-> "scheduled"])
           /\ orders' = set_status(orders, t.order, "confirmed")
           /\ tasks' = [tasks EXCEPT ![i].pc = after_schedule(t)]
    /\ UNCHANGED <<user_states, users, subscriptions, notified, loyalty_points, stock, addresses,
                   couriers, now, reply, answered,
                   fee_call, user_data>>

(* PaymentService.process_loyalty_payment (services.py 206-231): the new  *)
(* balance, or the old one when the debit is refused                       *)
process_loyalty_payment(points, amount) ==
    IF points < amount THEN [ok |-> FALSE, points |-> points]
    ELSE [ok |-> TRUE, points |-> points - amount]

(* main.py 1440-1444, and the except branch when the card intent raises *)
Payment(i, ok) ==
    /\ tasks[i].pc = "payment"
    /\ LET t == tasks[i]
           uid == users[t.user]
       IN  IF t.sess.payment_method = "card"
           THEN /\ IF ok
                   THEN /\ tasks' = [tasks EXCEPT ![i].pc = "points"]
                        /\ UNCHANGED reply
                   ELSE /\ tasks' = [tasks EXCEPT ![i].pc = "del"]
                        /\ Say(t.user, "order_error")
                /\ UNCHANGED loyalty_points
           ELSE /\ loyalty_points' = [loyalty_points EXCEPT ![uid] =
                       process_loyalty_payment(loyalty_points[uid], task_total(t)).points]
                /\ tasks' = [tasks EXCEPT ![i].pc = "points"]
                /\ UNCHANGED reply
    /\ UNCHANGED <<user_states, users, subscriptions, notified, stock, addresses, orders, deliveries,
                   couriers, now, answered,
                   fee_call, user_data>>

(* int(total*0.05) *)
reward_points(total) == (total * 5) \div 100

(* main.py 1448-1449: add_loyalty_points, then the success text *)
AddPoints(i) ==
    /\ tasks[i].pc = "points"
    /\ LET t == tasks[i]
           uid == users[t.user]
       IN  /\ loyalty_points' = [loyalty_points EXCEPT ![uid] =
                  loyalty_points[uid] + reward_points(task_total(t))]
           /\ Say(t.user, "order_success")
           /\ tasks' = [tasks EXCEPT ![i].pc = "del"]
    /\ UNCHANGED <<user_states, users, subscriptions, notified, stock, addresses, orders, deliveries,
                   couriers, now, answered,
                   fee_call, user_data>>

(* main.py 1453: del self.user_states[user_id]; a KeyError when the key is *)
(* gone ends the handler without a change                                  *)
DelSession(i) ==
    /\ tasks[i].pc = "del"
    /\ user_states' = [user_states EXCEPT ![tasks[i].user] = NoSession]
    /\ tasks' = [tasks EXCEPT ![i] = NoTask]
    /\ UNCHANGED <<reply, answered>>
    /\ DbSame

----------------------------------------------------------------------------
(* The environment: the stock, the address book *)

StockLevels == {1, MaxQty}

(* products.stock_quantity is changed outside the bot *)
StockChange(p, n) ==
    /\ stock[p] # n
    /\ stock' = [stock EXCEPT ![p] = n]
    /\ UNCHANGED <<user_states, users, subscriptions, notified, loyalty_points, addresses, orders,
                   deliveries, couriers, now, reply, answered, tasks,
                   fee_call, user_data>>

(* AddressService.add_address for the user *)
AddAddress(u, a) ==
    /\ a \notin addresses[users[u]]
    /\ addresses' = [addresses EXCEPT ![users[u]] = @ \cup {a}]
    /\ UNCHANGED <<user_states, users, subscriptions, notified, loyalty_points, stock, orders,
                   deliveries, couriers, now, reply, answered, tasks,
                   fee_call, user_data>>

----------------------------------------------------------------------------
(* The bot as run_bot_sync builds it (main.py 1697): the application is    *)
(* built without concurrent updates, so an update is handled to the end    *)
(* before the next one is taken.  One user talks to the bot.               *)

(* the slot buttons a user can press: the first slot shown, and a slot id  *)
(* of the form "DD.MM.YYYY HH" sent by hand                                 *)
HandSlotId == << DateWord(1), IntWord(10) >>

ShownSlotIds(u) ==
    { session_of(u).slots[k].slot_id :
        k \in { j \in 1..Len(session_of(u).slots) : j <= 1 } }

NoHandlerRunning == \A i \in TaskIds : tasks[i].pc = "idle"

NoAnswer == [user |-> 0, kind |-> ""]

Talkers == {1}
StaleKinds == {"order_cancel", "order_qty"}

(* the model takes no /order and no confirm once the orders table is full *)
OrdersTableOpen == Len(orders) + pending_creates < MaxOrders

Init ==
    /\ user_states = [k \in Keys |-> NoSession]
    /\ users \in UserTables
    /\ loyalty_points \in { [r \in RowIds |-> 0], [r \in RowIds |-> RichPoints] }
    /\ stock = [p \in Products |-> MaxQty]
    /\ addresses = [r \in RowIds |-> {}]
    /\ orders = <<>>
    /\ deliveries = <<>>
    /\ couriers = {11}
    /\ now = 0
    /\ reply = [u \in TelegramIds |-> ""]
    /\ answered = NoAnswer
    /\ tasks = [i \in TaskIds |-> NoTask]
    /\ subscriptions = <<>>
    /\ notified = {}
    /\ fee_call = NoFeeCall
    /\ user_data = NoUserData

Next ==
    \/ \E u \in Talkers, allowed \in BOOLEAN :
          NoHandlerRunning /\ OrdersTableOpen /\ OrderCommand(u, allowed)
    \/ \E u \in Talkers, kind \in StaleKinds :
          NoHandlerRunning /\ SessionExpired(u, kind)
    \/ \E u \in Talkers, p \in Products \cup {UnknownProduct} :
          NoHandlerRunning /\ SelectProduct(u, p)
    \/ \E u \in Talkers, q \in Quantities : NoHandlerRunning /\ SelectQuantity(u, q)
    \/ \E u \in Talkers : NoHandlerRunning /\ AddMore(u)
    \/ \E u \in Talkers : NoHandlerRunning /\ ProceedToDelivery(u)
    \/ \E u \in Talkers : NoHandlerRunning /\ CancelInCart(u)
    \/ \E u \in Talkers, a \in AddressIds : NoHandlerRunning /\ SelectAddress(u, a)
    \/ \E u \in Talkers : \E sl \in ShownSlotIds(u) \cup {HandSlotId} :
          NoHandlerRunning /\ SelectSlot(u, sl)
    \/ \E u \in Talkers, pm \in PaymentMethods : NoHandlerRunning /\ SelectPayment(u, pm)
    \/ \E u \in Talkers : NoHandlerRunning /\ CancelInConfirm(u)
    \/ \E u \in Talkers, kind \in StaleKinds : NoHandlerRunning /\ Ignored(u, kind)
    \/ \E u \in Talkers : NoHandlerRunning /\ OrdersTableOpen /\ ConfirmBegin(u)
    \/ \E i \in TaskIds, ok \in BOOLEAN : CreateOrder(i, ok)
    \/ \E i \in TaskIds, ok \in BOOLEAN : ScheduleFind(i, ok)
    \/ \E i \in TaskIds : ScheduleInsert(i)
    \/ \E i \in TaskIds, ok \in BOOLEAN : Payment(i, ok)
    \/ \E i \in TaskIds : AddPoints(i)
    \/ \E i \in TaskIds : DelSession(i)
    \/ \E n \in StockLevels : NoHandlerRunning /\ StockChange(1, n)
    \/ \E u \in Talkers, a \in AddressIds : NoHandlerRunning /\ AddAddress(u, a)
    \/ \E u \in Talkers :
          NoHandlerRunning /\ session_of(u).card_paid = "false" /\ PaidText(u)

Spec == Init /\ [][Next]_vars

(* The same bot with a user who goes on acting and handlers that run to    *)
(* their end: some step is taken whenever one can be, and a user who was   *)
(* asked to confirm the card payment goes on answering and confirming.     *)
SpecLive ==
    /\ Spec
    /\ WF_vars(Next)
    /\ \A u \in Talkers :
          /\ WF_vars(NoHandlerRunning /\ session_of(u).card_paid = "false" /\ PaidText(u))
          /\ WF_vars(NoHandlerRunning /\ OrdersTableOpen /\ ConfirmBegin(u))

----------------------------------------------------------------------------
(* Handlers interleaved at their awaits: a second update is taken while a  *)
(* commit is suspended at a call of a service.  Two users, one product,    *)
(* one quantity; both have a saved address.                                *)

MaxInterleavedOrders == 2

InterleavedTableOpen == Len(orders) + pending_creates < MaxInterleavedOrders

InitInterleaved ==
    /\ user_states = [k \in Keys |-> NoSession]
    /\ users = [u \in TelegramIds |-> u]
    /\ loyalty_points = [r \in RowIds |-> 0]
    /\ stock = [p \in Products |-> MaxQty]
    /\ addresses = [r \in RowIds |-> AddressIds]
    /\ orders = <<>>
    /\ deliveries = <<>>
    /\ couriers \in CourierTables
    /\ now = 0
    /\ reply = [u \in TelegramIds |-> ""]
    /\ answered = NoAnswer
    /\ tasks = [i \in TaskIds |-> NoTask]
    /\ subscriptions = <<>>
    /\ notified = {}
    /\ fee_call = NoFeeCall
    /\ user_data = NoUserData

(* a user who has no conversation going sends /order *)
StartsOrder(u) ==
    /\ user_states[users[u]] = NoSession
    /\ InterleavedTableOpen
    /\ OrderCommand(u, TRUE)

NextInterleaved ==
    \/ \E u \in TelegramIds : StartsOrder(u)
    \/ \E u \in TelegramIds : SelectProduct(u, 1)
    \/ \E u \in TelegramIds : SelectQuantity(u, 1)
    \/ \E u \in TelegramIds : ProceedToDelivery(u)
    \/ \E u \in TelegramIds, a \in AddressIds : SelectAddress(u, a)
    \/ \E u \in TelegramIds : \E sl \in ShownSlotIds(u) : SelectSlot(u, sl)
    \/ \E u \in TelegramIds : SelectPayment(u, "cash")
    \/ \E u \in TelegramIds : InterleavedTableOpen /\ ConfirmBegin(u)
    \/ \E i \in TaskIds : CreateOrder(i, TRUE)
    \/ \E i \in TaskIds : ScheduleFind(i, TRUE)
    \/ \E i \in TaskIds : ScheduleInsert(i)
    \/ \E i \in TaskIds : AddPoints(i)
    \/ \E i \in TaskIds : DelSession(i)

SpecInterleaved == InitInterleaved /\ [][NextInterleaved]_vars

----------------------------------------------------------------------------
(* The slot lookup on its own: the clock and the rows already in the       *)
(* orders table are drawn at the start, then a user walks to the address   *)
(* step, which calls get_available_slots.                                  *)

MaxBooked == 2

(* hours at which the lookup runs: before, at and after the start of a     *)
(* slot, and around the start of the last slot generated                    *)
SlotClocks == {0, 9, 10, 160, 161}

BookableSlotIds == { NoSlotId, slot_id_of(0, 9), slot_id_of(0, 11), slot_id_of(6, 17) }
OrderStatuses == {"pending", "confirmed", "delivered", "cancelled"}

(* a row of the orders table that was there before the bot started *)
BookedRow(k, slot, status) ==
    [id |-> k, user_id |-> 3, status |-> status, total_amount |-> 0,
     delivery_fee |-> 0, delivery_address_id |-> 1, payment_method |-> "cash",
     items |-> <<>>, delivery_time_slot |-> slot]

BookedTables ==
    UNION { { [k \in 1..n |-> BookedRow(k, f[k][1], f[k][2])] :
                f \in [1..n -> BookableSlotIds \X OrderStatuses] } : n \in 0..MaxBooked }

InitSlots ==
    /\ user_states = [k \in Keys |-> NoSession]
    /\ users = [u \in TelegramIds |-> u]
    /\ loyalty_points = [r \in RowIds |-> 0]
    /\ stock = [p \in Products |-> MaxQty]
    /\ addresses = [r \in RowIds |-> AddressIds]
    /\ orders \in BookedTables
    /\ deliveries = <<>>
    /\ couriers = {11}
    /\ now \in SlotClocks
    /\ reply = [u \in TelegramIds |-> ""]
    /\ answered = NoAnswer
    /\ tasks = [i \in TaskIds |-> NoTask]
    /\ subscriptions = <<>>
    /\ notified = {}
    /\ fee_call = NoFeeCall
    /\ user_data = NoUserData

(* the slot buttons of the message: slots[:5] *)
SlotButtons(u) ==
    { session_of(u).slots[k].slot_id :
        k \in { j \in 1..Len(session_of(u).slots) : j <= SlotsShown } }

(* callback data that is not "DD.MM.YYYY HH:00-HH:00": one word *)
JunkSlotId == << JunkWord >>

NextSlots ==
    \/ OrderCommand(1, TRUE)
    \/ SelectProduct(1, 1)
    \/ SelectQuantity(1, 1)
    \/ ProceedToDelivery(1)
    \/ \E a \in AddressIds : SelectAddress(1, a)
    \/ \E sl \in SlotButtons(1) \cup {HandSlotId, JunkSlotId} : SelectSlot(1, sl)
    \/ \E pm \in PaymentMethods : SelectPayment(1, pm)

SpecSlots == InitSlots /\ [][NextSlots]_vars

----------------------------------------------------------------------------
(* /subscribe, the other conversations that use user_states, and the       *)
(* renewal sweep                                                           *)

MaxDueSubs == 2     \* rows of the subscriptions table the sweep runs over

(* the frequency buttons are 3, 7, 14 and 30 days (main.py 1842) *)
Frequencies == {3, 7}
SubStatuses == {"active", "paused", "cancelled"}

(* the dict subscribe_command stores, under the telegram id *)
NewSubscribeSession == [NoSession EXCEPT !.state = "subscribe_select_product"]

(* subscribe_command *)
SubscribeCommand(u) ==
    /\ Store(u, NewSubscribeSession)
    /\ Say(u, "select_product_to_subscribe")
    /\ UNCHANGED <<answered, tasks>>
    /\ DbSame

(* subscribe_callback_handler with no session (main.py 1831-1833) *)
SubSessionExpired(u, kind) ==
    /\ session_of(u) = NoSession
    /\ Answer(u, kind)
    /\ Say(u, "session_expired")
    /\ UNCHANGED <<user_states, tasks>>
    /\ DbSame

(* main.py 1834-1845 *)
SubProduct(u, p) ==
    /\ Answer(u, "sub_product")
    /\ session_of(u).state = "subscribe_select_product"
    /\ Store(u, [session_of(u) EXCEPT !.product_id = p,
                                      !.state = "subscribe_frequency"])
    /\ Say(u, "how_often_delivery")
    /\ UNCHANGED tasks
    /\ DbSame

(* main.py 1846-1858 *)
SubFrequency(u, d) ==
    /\ Answer(u, "sub_freq")
    /\ session_of(u).state = "subscribe_frequency"
    /\ Store(u, [session_of(u) EXCEPT !.frequency_days = d,
                                      !.state = "subscribe_quantity"])
    /\ Say(u, "how_many_units")
    /\ UNCHANGED tasks
    /\ DbSame

(* The INSERT of services.py 880-884 computes next_delivery_date as        *)
(* CURRENT_DATE + INTERVAL '$3 days'.  Inside the quotes "$3" is not a     *)
(* parameter: the text '$3 days' is not an interval and the server rejects *)
(* the statement, whatever the arguments are.                              *)
interval_literal_valid == FALSE

(* SubscriptionService.create_subscription: the table after the INSERT, or *)
(* the error raised again by the except branch (services.py 887-889)       *)
create_subscription(subs, user_id, product_id, frequency_days, quantity) ==
    IF interval_literal_valid
    THEN [raised |-> FALSE,
          subs |-> Append(subs, [id |-> Len(subs) + 1, user_id |-> user_id,
                                 product_id |-> product_id,
                                 frequency_days |-> frequency_days,
                                 quantity |-> quantity,
                                 next_delivery_date |-> Today + frequency_days,
                                 status |-> "active"])]
    ELSE [raised |-> TRUE, subs |-> subs]

(* main.py 1859-1874 *)
SubQuantity(u, qty) ==
    /\ Answer(u, "sub_qty")
    /\ session_of(u).state = "subscribe_quantity"
    /\ LET r == create_subscription(subscriptions, users[u],
                                    session_of(u).product_id,
                                    session_of(u).frequency_days, qty)
       IN  /\ subscriptions' = r.subs
           /\ IF r.raised THEN Say(u, "subscription_failed")
                          ELSE Say(u, "subscription_created")
    /\ Store(u, NoSession)
    /\ UNCHANGED <<users, loyalty_points, stock, addresses, orders, deliveries,
                   couriers, now, tasks, notified,
                   fee_call, user_data>>

set_sub_status(subs, sub_id, status) ==
    [k \in 1..Len(subs) |->
        IF subs[k].id = sub_id THEN [subs[k] EXCEPT !.status = status] ELSE subs[k]]

(* main.py 1875-1882: the last branch of the chain on state['state'], taken *)
(* in any session that is in none of the three subscribe states             *)
SubCancel(u, sub_id, ok) ==
    /\ Answer(u, "sub_cancel")
    /\ session_of(u) # NoSession
    /\ session_of(u).state \notin {"subscribe_select_product",
                                   "subscribe_frequency", "subscribe_quantity"}
    /\ IF ok
       THEN /\ subscriptions' = set_sub_status(subscriptions, sub_id, "cancelled")
            /\ Say(u, "subscription_cancelled")
       ELSE /\ UNCHANGED subscriptions
            /\ Say(u, "subscription_cancel_failed")
    /\ UNCHANGED <<user_states, users, loyalty_points, stock, addresses, orders,
                   deliveries, couriers, now, tasks, notified,
                   fee_call, user_data>>

(* the kind of callback data each branch of subscribe_callback_handler     *)
(* acts on                                                                 *)
SubAccepts(state) ==
    CASE state = "subscribe_select_product" -> {"sub_product"}
      [] state = "subscribe_frequency" -> {"sub_freq"}
      [] state = "subscribe_quantity" -> {"sub_qty"}
      [] OTHER -> {"sub_cancel"}

(* callback data the branch of the current state does not match: only      *)
(* query.answer()                                                          *)
SubIgnored(u, kind) ==
    /\ session_of(u) # NoSession
    /\ kind \notin SubAccepts(session_of(u).state)
    /\ Answer(u, kind)
    /\ UNCHANGED <<user_states, reply, tasks>>
    /\ DbSame

(* address_callback_handler, data 'add_address' (main.py 2066-2068) *)
StartAddAddress(u) ==
    /\ Store(u, [NoSession EXCEPT !.state = "add_address_label"])
    /\ Say(u, "enter_label")
    /\ UNCHANGED <<answered, tasks>>
    /\ DbSame

(* edit_profile_callback_handler, data 'edit_name' (main.py 2249-2251) *)
StartEditName(u) ==
    /\ Store(u, [NoSession EXCEPT !.state = "edit_first_name"])
    /\ Say(u, "enter_first_name")
    /\ UNCHANGED <<answered, tasks>>
    /\ DbSame

(* SubscriptionService.get_due_renewals *)
get_due_renewals(subs, today) ==
    SelectSeq(subs, LAMBDA sub : sub.next_delivery_date <= today
                                 /\ sub.status = "active")

(* process_subscription_renewals as the class ends up defining it: the     *)
(* definition of main.py 2429-2435 replaces the one of 1596-1626.  ok: the *)
(* query of get_due_renewals went through; an error is logged and the      *)
(* sweep ends.                                                             *)
process_subscription_renewals(ok) ==
    LET due_renewals == get_due_renewals(subscriptions, Today)
    IN  /\ notified' = IF ok
                       THEN { due_renewals[k].id : k \in 1..Len(due_renewals) }
                       ELSE {}
        /\ UNCHANGED <<user_states, users, loyalty_points, stock, addresses,
                       orders, deliveries, couriers, now, reply, answered, tasks,
                       subscriptions,
                   fee_call, user_data>>

(* subscription_callback_handler, data pause_sub_<id> *)
PauseSubscription(sub_id) ==
    /\ subscriptions' = set_sub_status(subscriptions, sub_id, "paused")
    /\ UNCHANGED <<user_states, users, loyalty_points, stock, addresses, orders,
                   deliveries, couriers, now, reply, answered, tasks, notified,
                   fee_call, user_data>>

(* subscription_callback_handler, data resume_sub_<id> *)
ResumeSubscription(sub_id) ==
    /\ subscriptions' = set_sub_status(subscriptions, sub_id, "active")
    /\ UNCHANGED <<user_states, users, loyalty_points, stock, addresses, orders,
                   deliveries, couriers, now, reply, answered, tasks, notified,
                   fee_call, user_data>>

----------------------------------------------------------------------------
(* Two users and the conversations that write user_states *)

SubKinds == {"sub_product", "sub_cancel"}

(* the subscriptions table the bot starts with: empty, or one active row   *)
(* of the user with row id 2                                               *)
SessionSubTables ==
    { <<>>,
      << [id |-> 1, user_id |-> 2, product_id |-> 1, frequency_days |-> 7,
          quantity |-> 1, next_delivery_date |-> 7, status |-> "active"] >> }

InitSessions ==
    /\ user_states = [k \in Keys |-> NoSession]
    /\ users \in UserTables
    /\ loyalty_points = [r \in RowIds |-> 0]
    /\ stock = [p \in Products |-> MaxQty]
    /\ addresses = [r \in RowIds |-> AddressIds]
    /\ orders = <<>>
    /\ deliveries = <<>>
    /\ couriers = {11}
    /\ now = 0
    /\ reply = [u \in TelegramIds |-> ""]
    /\ answered = NoAnswer
    /\ tasks = [i \in TaskIds |-> NoTask]
    /\ subscriptions \in SessionSubTables
    /\ notified = {}
    /\ fee_call = NoFeeCall
    /\ user_data = NoUserData

NextSessions ==
    \/ \E u \in TelegramIds : OrderCommand(u, TRUE)
    \/ \E u \in TelegramIds : SessionExpired(u, "order_product")
    \/ \E u \in TelegramIds : SelectProduct(u, 1)
    \/ \E u \in TelegramIds : SubscribeCommand(u)
    \/ \E u \in TelegramIds, kind \in SubKinds : SubSessionExpired(u, kind)
    \/ \E u \in TelegramIds : SubProduct(u, 1)
    \/ \E u \in TelegramIds, d \in Frequencies : SubFrequency(u, d)
    \/ \E u \in TelegramIds : SubQuantity(u, 1)
    \/ \E u \in TelegramIds, ok \in BOOLEAN :
          \E k \in 1..Len(subscriptions) : SubCancel(u, subscriptions[k].id, ok)
    \/ \E u \in TelegramIds, kind \in SubKinds : SubIgnored(u, kind)
    \/ \E u \in TelegramIds : StartAddAddress(u)
    \/ \E u \in TelegramIds : StartEditName(u)

SpecSessions == InitSessions /\ [][NextSessions]_vars

----------------------------------------------------------------------------
(* The renewal sweep over the subscriptions that are in the table *)

SweepDays == {0, 1}

SubRow(k, f) ==
    [id |-> k, user_id |-> 1, product_id |-> 1, frequency_days |-> f[1],
     quantity |-> 1, next_delivery_date |-> f[2], status |-> f[3]]

SubTables ==
    UNION { { [k \in 1..n |-> SubRow(k, f[k])] :
                f \in [1..n -> Frequencies \X {0, 1, 3} \X SubStatuses] } :
            n \in 0..MaxDueSubs }

InitSweep ==
    /\ user_states = [k \in Keys |-> NoSession]
    /\ users = [u \in TelegramIds |-> u]
    /\ loyalty_points = [r \in RowIds |-> 0]
    /\ stock = [p \in Products |-> MaxQty]
    /\ addresses = [r \in RowIds |-> AddressIds]
    /\ orders = <<>>
    /\ deliveries = <<>>
    /\ couriers = {11}
    /\ now \in { d * HoursPerDay : d \in SweepDays }
    /\ reply = [u \in TelegramIds |-> ""]
    /\ answered = NoAnswer
    /\ tasks = [i \in TaskIds |-> NoTask]
    /\ subscriptions \in SubTables
    /\ notified = {}
    /\ fee_call = NoFeeCall
    /\ user_data = NoUserData

NextSweep ==
    \/ \E ok \in BOOLEAN : process_subscription_renewals(ok)
    \/ \E k \in 1..Len(subscriptions) : PauseSubscription(subscriptions[k].id)
    \/ \E k \in 1..Len(subscriptions) : ResumeSubscription(subscriptions[k].id)

SpecSweep == InitSweep /\ [][NextSweep]_vars

----------------------------------------------------------------------------
(* calculate_delivery_fee on its own: the two locations and whether the    *)
(* block fails for another reason are drawn at the start, then the         *)
(* function is called.                                                     *)

MaxKm == 8          \* the farthest location, in km from the origin

FeeLocations == {BadLocation} \cup 0..MaxKm

FeeCallSame ==
    UNCHANGED <<user_states, users, loyalty_points, stock, addresses, orders,
                deliveries, couriers, now, reply, answered, tasks, subscriptions,
                notified, user_data>>

InitFee ==
    /\ user_states = [k \in Keys |-> NoSession]
    /\ users = [u \in TelegramIds |-> u]
    /\ loyalty_points = [r \in RowIds |-> 0]
    /\ stock = [p \in Products |-> MaxQty]
    /\ addresses = [r \in RowIds |-> AddressIds]
    /\ orders = <<>>
    /\ deliveries = <<>>
    /\ couriers = {11}
    /\ now = 0
    /\ reply = [u \in TelegramIds |-> ""]
    /\ answered = NoAnswer
    /\ tasks = [i \in TaskIds |-> NoTask]
    /\ subscriptions = <<>>
    /\ notified = {}
    /\ fee_call \in { [NoFeeCall EXCEPT !.user_location = ul,
                                         !.warehouse_location = wl,
                                         !.fails = f] :
                         ul \in FeeLocations, wl \in FeeLocations, f \in BOOLEAN }
    /\ user_data = NoUserData

(* await self.delivery_service.calculate_delivery_fee(...) *)
CalculateDeliveryFee ==
    /\ fee_call.outcome = "none"
    /\ LET r == fee_or_default(fee_try(fee_call.user_location,
                                       fee_call.warehouse_location,
                                       fee_call.fails))
       IN  fee_call' = IF r = Raised
                       THEN [fee_call EXCEPT !.outcome = "raised"]
                       ELSE [fee_call EXCEPT !.outcome = "returned", !.fee = r]
    /\ FeeCallSame

NextFee == CalculateDeliveryFee

SpecFee == InitFee /\ [][NextFee]_vars

----------------------------------------------------------------------------
(* The status of an order: the commit, the cancel button of the order      *)
(* details and the buttons of the delivery person                          *)

MaxStatusOrders == 2    \* rows of the orders table, with those it starts with

order_ids(ords) == { ords[k].id : k \in 1..Len(ords) }

(* OrderService.get_order_details: the row *)
get_order_details(ords, order_id) ==
    ords[CHOOSE k \in 1..Len(ords) : ords[k].id = order_id]

(* order_details_callback_handler, data cancel_order_<id> (main.py         *)
(* 2346-2353).  A delivered order is refused.  For any other order the     *)
(* handler calls self.order_service.update_order_status: OrderService      *)
(* (services.py 753-835) has no such method, the call raises               *)
(* AttributeError and no row is written.                                   *)
CancelOrder(u, order_id) ==
    /\ order_id \in order_ids(orders)
    /\ Answer(u, "cancel_order")
    /\ IF get_order_details(orders, order_id).status = "delivered"
       THEN Say(u, "order_already_delivered")
       ELSE UNCHANGED reply
    /\ UNCHANGED <<user_states, tasks>>
    /\ DbSame

(* is_delivery_person: user.get('role') == 'delivery' *)
is_delivery_person(u) == users[u] \in couriers

(* get_deliveries_for_person(user['id'], status='in_transit') *)
get_deliveries_for_person(delivery_person_id, status) ==
    SelectSeq(deliveries, LAMBDA d : d.delivery_person_id = delivery_person_id
                                     /\ d.status = status)

(* deliver_command (main.py 2357-2371) *)
DeliverCommand(u) ==
    /\ answered' = [user |-> u, kind |-> "deliver"]
    /\ IF ~is_delivery_person(u)
       THEN Say(u, "not_delivery_person")
       ELSE IF get_deliveries_for_person(users[u], "in_transit") = <<>>
       THEN Say(u, "no_deliveries")
       ELSE Say(u, "my_deliveries")
    /\ UNCHANGED <<user_states, tasks>>
    /\ DbSame

(* the three buttons of deliver_update_<id>: deliver_status_<id>_<status> *)
StatusButtons == {"delivered", "in_transit", "failed"}

(* parts[3] of query.data.split('_'): 'in_transit' is cut at its '_' *)
status_part(button) == IF button = "in_transit" THEN "in" ELSE button

(* DeliveryService.update_delivery_status, the definition of services.py   *)
(* 493-504, which replaces the one of 421-433: the deliveries after it     *)
update_delivery_rows(dels, order_id, status) ==
    [k \in 1..Len(dels) |->
        IF dels[k].order_id = order_id THEN [dels[k] EXCEPT !.status = status]
        ELSE dels[k]]

(* deliver_callback_handler, data deliver_status_<id>_<status> (main.py    *)
(* 2385-2390): no test of the role of the user                             *)
DeliverStatus(u, order_id, button) ==
    /\ Answer(u, "deliver_status")
    /\ LET status == status_part(button)
       IN  /\ deliveries' = update_delivery_rows(deliveries, order_id, status)
           /\ orders' = IF status = "delivered"
                        THEN set_status(orders, order_id, "delivered")
                        ELSE orders
    /\ Say(u, "status_updated")
    /\ UNCHANGED <<user_states, users, loyalty_points, stock, addresses,
                   couriers, now, tasks, subscriptions, notified,
                   fee_call, user_data>>

(* the orders table the bot starts with: empty, or one row in any status   *)
StatusTables ==
    {<<>>} \cup { << BookedRow(1, NoSlotId, st) >> : st \in OrderStatuses }

StatusTableOpen == Len(orders) + pending_creates < MaxStatusOrders

(* user 1 is a customer, user 2 a delivery person *)
InitStatus ==
    /\ user_states = [k \in Keys |-> NoSession]
    /\ users = [u \in TelegramIds |-> u]
    /\ loyalty_points = [r \in RowIds |-> 0]
    /\ stock = [p \in Products |-> MaxQty]
    /\ addresses = [r \in RowIds |-> AddressIds]
    /\ orders \in StatusTables
    /\ deliveries = <<>>
    /\ couriers = {2}
    /\ now = 0
    /\ reply = [u \in TelegramIds |-> ""]
    /\ answered = NoAnswer
    /\ tasks = [i \in TaskIds |-> NoTask]
    /\ subscriptions = <<>>
    /\ notified = {}
    /\ fee_call = NoFeeCall
    /\ user_data = NoUserData

NextStatus ==
    \/ NoHandlerRunning /\ StatusTableOpen /\ OrderCommand(1, TRUE)
    \/ NoHandlerRunning /\ SelectProduct(1, 1)
    \/ NoHandlerRunning /\ SelectQuantity(1, 1)
    \/ NoHandlerRunning /\ ProceedToDelivery(1)
    \/ \E a \in AddressIds : NoHandlerRunning /\ SelectAddress(1, a)
    \/ \E sl \in ShownSlotIds(1) : NoHandlerRunning /\ SelectSlot(1, sl)
    \/ NoHandlerRunning /\ SelectPayment(1, "cash")
    \/ NoHandlerRunning /\ StatusTableOpen /\ ConfirmBegin(1)
    \/ \E i \in TaskIds : CreateOrder(i, TRUE)
    \/ \E i \in TaskIds : ScheduleFind(i, TRUE)
    \/ \E i \in TaskIds : ScheduleInsert(i)
    \/ \E i \in TaskIds : AddPoints(i)
    \/ \E i \in TaskIds : DelSession(i)
    \/ \E u \in TelegramIds, k \in order_ids(orders) :
          NoHandlerRunning /\ CancelOrder(u, k)
    \/ \E u \in TelegramIds : NoHandlerRunning /\ DeliverCommand(u)
    \/ \E u \in TelegramIds, k \in order_ids(orders), b \in StatusButtons :
          NoHandlerRunning /\ DeliverStatus(u, k, b)

SpecStatus == InitStatus /\ [][NextStatus]_vars

----------------------------------------------------------------------------
(* The order flow of bot.py: product button, quantity button or a quantity *)
(* typed as text, then a time slot button.  Its draft is                   *)
(* context.user_data.  One user, whose users row has a delivery zone, so   *)
(* that a quantity button is answered with the time slots.                 *)

MaxTextLen == 2     \* characters of a text message

(* the characters a text is made of *)
TextChars == {"0", "1", "-", " ", "x"}
Digits == {"0", "1"}

Texts == UNION { [1..n -> TextChars] : n \in 0..MaxTextLen }

digit_value(c) == IF c = "0" THEN 0 ELSE 1

RECURSIVE lstrip(_)
lstrip(t) == IF t # <<>> /\ Head(t) = " " THEN lstrip(Tail(t)) ELSE t

RECURSIVE rstrip(_)
rstrip(t) ==
    IF t # <<>> /\ t[Len(t)] = " " THEN rstrip(SubSeq(t, 1, Len(t) - 1)) ELSE t

RECURSIVE digits_value(_, _)
digits_value(t, acc) ==
    IF t = <<>> THEN acc ELSE digits_value(Tail(t), 10 * acc + digit_value(Head(t)))

(* int(text): spaces around are dropped, then an optional sign, then one   *)
(* or more digits; anything else is a ValueError                           *)
int_of(text) ==
    LET t == rstrip(lstrip(text))
        negative == t # <<>> /\ Head(t) = "-"
        body == IF negative THEN Tail(t) ELSE t
    IN  IF body = <<>> \/ \E k \in 1..Len(body) : body[k] \notin Digits
        THEN [ok |-> FALSE, value |-> 0]
        ELSE [ok |-> TRUE,
              value |-> IF negative THEN 0 - digits_value(body, 0)
                                    ELSE digits_value(body, 0)]

(* a test that lets zero through *)
quantity_below_zero(quantity) ==
    quantity < 0

(* if quantity <= 0 (bot.py 991) *)
quantity_not_positive(quantity) ==
    quantity <= 0

BotSame ==
    UNCHANGED <<user_states, users, loyalty_points, stock, addresses, orders,
                deliveries, couriers, now, tasks, subscriptions, notified,
                fee_call>>

(* handle_product_order (bot.py 700-735) *)
HandleProductOrder(u, p) ==
    /\ Answer(u, "order")
    /\ user_data' = [user_data EXCEPT !.selected_product = p]
    /\ Say(u, "how_many")
    /\ BotSame

(* handle_quantity_selection, data qty_custom (bot.py 741-747) *)
HandleQuantityCustom(u) ==
    /\ Answer(u, "qty_custom")
    /\ user_data' = [user_data EXCEPT !.awaiting_custom_quantity = TRUE]
    /\ Say(u, "enter_quantity")
    /\ BotSame

(* handle_quantity_selection, data qty_<n> (bot.py 749-780) *)
HandleQuantitySelection(u, quantity) ==
    /\ Answer(u, "qty")
    /\ user_data' = [user_data EXCEPT !.quantity = quantity]
    /\ Say(u, "select_delivery_time")
    /\ BotSame

(* handle_time_slot_selection (bot.py 793-800) *)
HandleTimeSlotSelection(u) ==
    /\ Answer(u, "time")
    /\ user_data' = [user_data EXCEPT !.delivery_time = "09:00-11:00"]
    /\ Say(u, "payment_method")
    /\ BotSame

(* handle_message, the branch of awaiting_custom_quantity (bot.py 988-1002) *)
HandleMessageQuantity(u, text) ==
    /\ user_data.awaiting_custom_quantity
    /\ answered' = [user |-> u, kind |-> "text"]
    /\ LET quantity == int_of(text)
       IN  IF ~quantity.ok
           THEN /\ Say(u, "valid_number")
                /\ UNCHANGED user_data
           ELSE IF quantity_not_positive(quantity.value)
           THEN /\ Say(u, "valid_positive_number")
                /\ UNCHANGED user_data
           ELSE /\ user_data' = [user_data EXCEPT
                                    !.quantity = quantity.value,
                                    !.awaiting_custom_quantity = FALSE]
                /\ UNCHANGED reply
    /\ BotSame

InitQuantity ==
    /\ user_states = [k \in Keys |-> NoSession]
    /\ users = [u \in TelegramIds |-> u]
    /\ loyalty_points = [r \in RowIds |-> 0]
    /\ stock = [p \in Products |-> MaxQty]
    /\ addresses = [r \in RowIds |-> {}]
    /\ orders = <<>>
    /\ deliveries = <<>>
    /\ couriers = {}
    /\ now = 0
    /\ reply = [u \in TelegramIds |-> ""]
    /\ answered = NoAnswer
    /\ tasks = [i \in TaskIds |-> NoTask]
    /\ subscriptions = <<>>
    /\ notified = {}
    /\ fee_call = NoFeeCall
    /\ user_data = NoUserData

NextQuantity ==
    \/ \E p \in Products : HandleProductOrder(1, p)
    \/ HandleQuantityCustom(1)
    \/ \E q \in Quantities : HandleQuantitySelection(1, q)
    \/ HandleTimeSlotSelection(1)
    \/ \E text \in Texts : HandleMessageQuantity(1, text)

SpecQuantity == InitQuantity /\ [][NextQuantity]_vars

----------------------------------------------------------------------------
(* The dispatcher of run_bot_sync: a callback query goes to the first      *)
(* registered CallbackQueryHandler whose pattern matches its data          *)

(* callback data as the words between its underscores; the argument of a   *)
(* button (a product id, a quantity, an address id, a slot id) is "arg"    *)
data_words(kind) ==
    CASE kind = "order_product" -> <<"order", "product", "arg">>
      [] kind = "order_qty" -> <<"order", "qty", "arg">>
      [] kind = "order_add_more" -> <<"order", "add", "more">>
      [] kind = "order_delivery" -> <<"order", "delivery">>
      [] kind = "order_cancel" -> <<"order", "cancel">>
      [] kind = "select_addr" -> <<"select", "addr", "arg">>
      [] kind = "add_address" -> <<"add", "address">>
      [] kind = "order_slot" -> <<"order", "slot", "arg">>
      [] kind = "order_pay" -> <<"order", "pay", "arg">>
      [] kind = "order_confirm" -> <<"order", "confirm">>
      [] OTHER -> <<kind>>

(* re.match of "^prefix_": the words of the prefix, then an underscore *)
starts_with(words, prefix) ==
    /\ Len(words) > Len(prefix)
    /\ SubSeq(words, 1, Len(prefix)) = prefix

(* the CallbackQueryHandlers in the order of add_handler: the prefixes a   *)
(* pattern accepts, the data it accepts as a whole, or every data          *)
CallbackQueryHandlers ==
    << [callback |-> "order_callback_handler", prefixes |-> { <<"order">> },
        whole |-> {}, any |-> FALSE],
       [callback |-> "track_callback_handler", prefixes |-> { <<"track">> },
        whole |-> {}, any |-> FALSE],
       [callback |-> "subscribe_callback_handler", prefixes |-> { <<"sub">> },
        whole |-> {}, any |-> FALSE],
       [callback |-> "edit_profile_callback_handler", prefixes |-> {},
        whole |-> { <<"edit", "profile">>, <<"edit", "name">>, <<"edit", "phone">>,
                    <<"edit", "email">>, <<"edit", "language">> },
        any |-> FALSE],
       [callback |-> "order_details_callback_handler",
        prefixes |-> { <<"order", "details">>, <<"cancel", "order">> },
        whole |-> {}, any |-> FALSE],
       [callback |-> "deliver_callback_handler", prefixes |-> { <<"deliver">> },
        whole |-> {}, any |-> FALSE],
       [callback |-> "subscription_callback_handler",
        prefixes |-> { <<"pause", "sub">>, <<"resume", "sub">>, <<"edit", "sub">> },
        whole |-> {}, any |-> FALSE],
       [callback |-> "notification_prefs_callback_handler", prefixes |-> {},
        whole |-> { <<"toggle", "sms">>, <<"toggle", "email">>,
                    <<"toggle", "telegram">>, <<"toggle", "marketing">> },
        any |-> FALSE],
       [callback |-> "button_handler", prefixes |-> {}, whole |-> {}, any |-> TRUE] >>

check_update(h, words) ==
    \/ h.any
    \/ words \in h.whole
    \/ \E prefix \in h.prefixes : starts_with(words, prefix)

(* Application.process_update: the first handler of the group that matches *)
handler_of(words) ==
    LET matching == { k \in 1..Len(CallbackQueryHandlers) :
                        check_update(CallbackQueryHandlers[k], words) }
        first == CHOOSE k \in matching : \A j \in matching : k <= j
    IN  CallbackQueryHandlers[first].callback

(* the buttons of the last message of the order conversation *)
Keyboard(u) ==
    CASE reply[u] = "select_product" -> {"order_product"}
      [] reply[u] = "select_quantity" -> {"order_qty"}
      [] reply[u] = "cart" -> {"order_add_more", "order_delivery", "order_cancel"}
      [] reply[u] = "select_address" -> {"select_addr", "add_address"}
      [] reply[u] = "select_delivery_slot" -> {"order_slot"}
      [] reply[u] = "choose_payment_method" -> {"order_pay"}
      [] reply[u] = "order_summary" -> {"order_confirm", "order_cancel"}
      [] OTHER -> {}

(* order_callback_handler as a whole: the branch of the state and the data *)
order_callback_handler(u, kind) ==
    IF session_of(u) = NoSession THEN SessionExpired(u, kind)
    ELSE IF kind \notin Accepts(session_of(u).state) THEN Ignored(u, kind)
    ELSE CASE kind = "order_product" -> \E p \in Products : SelectProduct(u, p)
           [] kind = "order_qty" -> \E q \in Quantities : SelectQuantity(u, q)
           [] kind = "order_add_more" -> AddMore(u)
           [] kind = "order_delivery" -> ProceedToDelivery(u)
           [] kind = "order_cancel" /\ session_of(u).state = "cart" -> CancelInCart(u)
           [] kind = "order_cancel" /\ session_of(u).state = "confirm" -> CancelInConfirm(u)
           [] kind = "select_addr" -> \E a \in AddressIds : SelectAddress(u, a)
           [] kind = "order_slot" -> \E sl \in SlotButtons(u) : SelectSlot(u, sl)
           [] kind = "order_pay" -> \E m \in PaymentMethods : SelectPayment(u, m)
           [] kind = "order_confirm" -> ConfirmBegin(u)

(* button_handler: 'order' starts the order conversation, data that no     *)
(* branch names is answered with "Unknown action."                         *)
button_handler(u, kind) ==
    IF kind = "order"
    THEN /\ order_command(u, TRUE)
         /\ UNCHANGED <<answered, tasks>>
         /\ DbSame
    ELSE /\ Answer(u, kind)
         /\ Say(u, "unknown_action")
         /\ UNCHANGED <<user_states, tasks>>
         /\ DbSame

(* the user presses a button: the update is dispatched *)
Press(u, kind) ==
    LET callback == handler_of(data_words(kind))
    IN  CASE callback = "order_callback_handler" -> order_callback_handler(u, kind)
          [] callback = "button_handler" -> button_handler(u, kind)
          [] OTHER -> FALSE

InitRouting ==
    /\ user_states = [k \in Keys |-> NoSession]
    /\ users \in UserTables
    /\ loyalty_points = [r \in RowIds |-> 0]
    /\ stock = [p \in Products |-> MaxQty]
    /\ addresses = [r \in RowIds |-> AddressIds]
    /\ orders = <<>>
    /\ deliveries = <<>>
    /\ couriers = {11}
    /\ now = 0
    /\ reply = [u \in TelegramIds |-> ""]
    /\ answered = NoAnswer
    /\ tasks = [i \in TaskIds |-> NoTask]
    /\ subscriptions = <<>>
    /\ notified = {}
    /\ fee_call = NoFeeCall
    /\ user_data = NoUserData

(* users who send /order and then press the buttons they are shown *)
NextRouting ==
    \/ \E u \in TelegramIds : OrderCommand(u, TRUE)
    \/ \E u \in TelegramIds : \E kind \in Keyboard(u) : Press(u, kind)

SpecRouting == InitRouting /\ [][NextRouting]_vars

----------------------------------------------------------------------------
(* PaymentService.process_loyalty_payment called twice at the same time:   *)
(* the SELECT of the balance and the UPDATE that subtracts are two         *)
(* statements on a pooled connection, outside any transaction              *)

MaxPoints == 3      \* the largest balance and the largest amount of a debit

Balances == 0..MaxPoints
Amounts == 1..MaxPoints
DebitUsers == {1, 2}

(* a call of process_loyalty_payment(user_id, amount) and its position *)
NoDebit == [pc |-> "idle", user_id |-> 0, amount |-> 0, returned |-> "none"]

LoyaltySame ==
    UNCHANGED <<user_states, users, subscriptions, notified, stock, addresses, orders,
                deliveries, couriers, now, reply, answered, fee_call, user_data>>

(* the callers: the commit paid with points (main.py 1443-1444) and        *)
(* redeem_loyalty_points (main.py 628)                                     *)
CallLoyaltyPayment(i, user_id, amount) ==
    /\ tasks[i].pc = "idle"
    /\ tasks' = [tasks EXCEPT ![i] =
           [pc |-> "select", user_id |-> user_id, amount |-> amount, returned |-> "none"]]
    /\ UNCHANGED loyalty_points
    /\ LoyaltySame

(* services.py 210-215: SELECT loyalty_points, return False when too low *)
LoyaltySelect(i) ==
    /\ tasks[i].pc = "select"
    /\ IF loyalty_points[tasks[i].user_id] < tasks[i].amount
       THEN tasks' = [tasks EXCEPT ![i].pc = "idle", ![i].returned = "False"]
       ELSE tasks' = [tasks EXCEPT ![i].pc = "update"]
    /\ UNCHANGED loyalty_points
    /\ LoyaltySame

(* services.py 217-228: UPDATE ... loyalty_points - $1, the log row, True *)
LoyaltyUpdate(i) ==
    /\ tasks[i].pc = "update"
    /\ loyalty_points' = [loyalty_points EXCEPT ![tasks[i].user_id] = @ - tasks[i].amount]
    /\ tasks' = [tasks EXCEPT ![i].pc = "idle", ![i].returned = "True"]
    /\ LoyaltySame

InitLoyalty ==
    /\ user_states = [k \in Keys |-> NoSession]
    /\ users = [u \in TelegramIds |-> u]
    /\ loyalty_points \in { [r \in RowIds |-> b] : b \in Balances }
    /\ stock = [p \in Products |-> MaxQty]
    /\ addresses = [r \in RowIds |-> AddressIds]
    /\ orders = <<>>
    /\ deliveries = <<>>
    /\ couriers = {11}
    /\ now = 0
    /\ reply = [u \in TelegramIds |-> ""]
    /\ answered = NoAnswer
    /\ tasks = [i \in TaskIds |-> NoDebit]
    /\ subscriptions = <<>>
    /\ notified = {}
    /\ fee_call = NoFeeCall
    /\ user_data = NoUserData

NextLoyalty ==
    \/ \E i \in TaskIds, r \in DebitUsers, amount \in Amounts :
          CallLoyaltyPayment(i, r, amount)
    \/ \E i \in TaskIds : LoyaltySelect(i)
    \/ \E i \in TaskIds : LoyaltyUpdate(i)

SpecLoyalty == InitLoyalty /\ [][NextLoyalty]_vars

----------------------------------------------------------------------------
(* Properties *)

InFlight == { i \in TaskIds : tasks[i].pc # "idle" }

has_delivery(order_id) ==
    \E k \in 1..Len(deliveries) : deliveries[k].order_id = order_id

(* C1: the total stored on the order a commit has inserted is the sum of   *)
(* price*quantity over the cart lines plus the delivery fee of the draft,  *)
(* the total the Confirm summary showed.                                   *)
C1_OrderTotalIncludesFee ==
    \A i \in InFlight :
        tasks[i].order # 0 =>
            orders[tasks[i].order].total_amount = summary_total(tasks[i].sess)

(* C2: when the confirm of one draft is taken twice, the second while the  *)
(* first is suspended in the commit, at most one of the two handlers       *)
(* inserts an order.  (Two orders in the table, both of handlers still in  *)
(* flight for the same user: no commit has ended, so no session was        *)
(* deleted and both handlers hold the same draft.)                         *)
C2_OneOrderPerDraft ==
    \A i, j \in InFlight :
        (/\ i # j
         /\ tasks[i].user = tasks[j].user
         /\ tasks[i].sess = tasks[j].sess
         /\ Len(orders) = 2)
        => ~ (tasks[i].order # 0 /\ tasks[j].order # 0)

(* C3: a commit whose loyalty debit is refused for want of points is       *)
(* aborted: it does not go on to the reward and the success text, and the  *)
(* order it inserted does not stay in a state other than cancelled.        *)
C3_RefusedDebitAborts ==
    [][\A i \in TaskIds :
          (/\ tasks[i].pc = "payment"
           /\ tasks'[i].pc # "payment"
           /\ tasks[i].sess.payment_method = "loyalty"
           /\ loyalty_points[users[tasks[i].user]] < task_total(tasks[i]))
          => (/\ tasks'[i].pc = "del"
              /\ reply'[tasks[i].user] # "order_success"
              /\ orders'[tasks[i].order].status = "cancelled")]_vars

(* C4: an order whose commit is past the scheduling step either has a      *)
(* delivery record or is cancelled, and the success text is not sent for   *)
(* an order that has no delivery record.                                   *)
C4_UnscheduledOrderNotKept ==
    /\ \A k \in 1..Len(orders) :
          (\A i \in InFlight :
               tasks[i].order = k => tasks[i].pc \notin {"schedule", "schedule_insert"})
          => (orders[k].status = "cancelled" \/ has_delivery(orders[k].id))
    /\ \A i \in InFlight :
          (tasks[i].order # 0 /\ tasks[i].pc = "del"
             /\ reply[tasks[i].user] = "order_success")
          => has_delivery(tasks[i].order)

(* C5: a confirm that finds a cart line with more units than the stock of  *)
(* its product inserts no order, keeps the cart, and puts the session in   *)
(* the Cart state.                                                         *)
C5_OutOfStockReturnsToCart ==
    [][\A u \in TelegramIds :
          (/\ session_of(u).state = "confirm"
           /\ ~in_stock(session_of(u).cart, stock)
           /\ answered'.user = u /\ answered'.kind = "order_confirm"
           /\ reply'[u] = "out_of_stock" /\ reply[u] # "out_of_stock")
          => (/\ orders' = orders
              /\ user_states'[u].cart = session_of(u).cart
              /\ user_states'[u].state = "cart")]_vars

PreConfirmStates == {"select_product", "select_quantity", "cart",
                     "SELECT_ADDRESS", "delivery_slot", "payment_method"}

(* C6: a cancel taken in any state before Confirm deletes the session of   *)
(* the user at once and writes no order; a /order then stores a session in *)
(* SelectProduct with an empty cart.                                       *)
C6_CancelDiscardsDraft ==
    [][/\ \A u \in TelegramIds :
             (/\ session_of(u).state \in PreConfirmStates
              /\ answered' # answered
              /\ answered'.user = u /\ answered'.kind = "order_cancel")
             => (user_states'[u] = NoSession /\ orders' = orders)
       /\ \A u \in TelegramIds :
             (reply'[u] = "select_product" /\ user_states' # user_states
                /\ answered' = answered)
             => (/\ user_states'[users[u]].state = "select_product"
                 /\ user_states'[users[u]].cart = <<>>)]_vars

slot_ids_of(slots) == { slots[k].slot_id : k \in 1..Len(slots) }

(* C7: once a commit has gone through for a chosen slot, and as long as    *)
(* its order is neither delivered nor cancelled, get_available_slots does  *)
(* not return that slot.                                                   *)
C7_CommittedSlotNotOffered ==
    \A i \in InFlight :
        (/\ tasks[i].pc = "del"
         /\ tasks[i].order # 0
         /\ reply[tasks[i].user] = "order_success"
         /\ has_delivery(tasks[i].order)
         /\ orders[tasks[i].order].status \notin {"delivered", "cancelled"})
        => tasks[i].sess.selected_slot \notin slot_ids_of(get_available_slots(orders, now))

(* the place of a slot in the generated list *)
generated_at(slot) == CHOOSE k \in 1..Len(time_slots) : time_slots[k] = slot

eligible_at(k) ==
    /\ time_slots[k].start_time > now
    /\ time_slots[k].slot_id \notin booked_slot_ids(orders)

(* C8: the slots the lookup returned, as the address step stored them: at  *)
(* most 20, each starting after the current time, none with an id that an  *)
(* order neither delivered nor cancelled refers to, in the order of the    *)
(* generated list, and no slot that qualifies left out before the cut.     *)
C8_AvailableSlots ==
    \A u \in TelegramIds :
        LET r == session_of(u).slots
        IN  /\ Len(r) <= SlotsPreview
            /\ \A k \in 1..Len(r) :
                  /\ r[k].start_time > now
                  /\ r[k].slot_id \notin booked_slot_ids(orders)
                  /\ \E g \in 1..Len(time_slots) : time_slots[g] = r[k]
            /\ \A k \in 1..(Len(r) - 1) :
                  /\ generated_at(r[k]) < generated_at(r[k + 1])
                  /\ r[k].start_time < r[k + 1].start_time
            /\ (session_of(u).state = "delivery_slot" /\ r # <<>>) =>
                  \A g \in 1..Len(time_slots) :
                      (eligible_at(g)
                         /\ (Len(r) < SlotsPreview \/ g < generated_at(r[Len(r)])))
                      => \E k \in 1..Len(r) : r[k] = time_slots[g]

(* a lookup that cut the list at 20, dropped a slot for its booking and    *)
(* dropped a slot for its start time                                       *)
C8_Witness ==
    \E u \in TelegramIds :
        /\ session_of(u).state = "delivery_slot"
        /\ Len(session_of(u).slots) = SlotsPreview
        /\ \E g \in 1..Len(time_slots) :
              /\ time_slots[g].start_time > now
              /\ time_slots[g].slot_id \in booked_slot_ids(orders)
        /\ \E g \in 1..Len(time_slots) : time_slots[g].start_time = now

orders_of(row_id) == { k \in 1..Len(orders) : orders[k].user_id = row_id }

BothCommitted ==
    /\ NoHandlerRunning
    /\ \A u \in TelegramIds : orders_of(users[u]) # {}

Min(a, b) == IF a < b THEN a ELSE b

past_scheduling(k) ==
    \A i \in InFlight :
        tasks[i].order = k => tasks[i].pc \notin {"schedule", "schedule_insert"}

C10_CartAccumulates ==
    [][\A u \in TelegramIds :
          (session_of(u).state = "select_quantity" /\ user_states'[u].state = "cart")
          => LET old == session_of(u).cart
                 new == user_states'[u].cart
                 item == new[Len(new)]
             IN  /\ Len(new) = Len(old) + 1
                 /\ SubSeq(new, 1, Len(old)) = old
                 /\ item.id = session_of(u).selected_product.id
                 /\ item.price = ProductPrice[item.id]
                 /\ item.quantity \in Quantities
                 /\ get_cart_total(new) = get_cart_total(old) + item.price * item.quantity
                 /\ \A f \in Permutations(1..Len(new)) :
                       get_cart_total([k \in 1..Len(new) |-> new[f[k]]])
                          = get_cart_total(new)
                 /\ \A a, b \in 1..Len(new) :
                       (Len(new) = 2 /\ a # b /\ new[a].id = new[b].id)
                       => get_cart_total(new)
                            = (new[a].quantity + new[b].quantity) * ProductPrice[new[a].id]]_vars

(* the same product added twice, with two different quantities *)
C10_Witness ==
    \E u \in TelegramIds :
        LET cart == session_of(u).cart
        IN  /\ session_of(u).state = "cart"
            /\ Len(cart) = 2
            /\ cart[1].id = cart[2].id
            /\ cart[1].quantity # cart[2].quantity

is_due(sub) == sub.status = "active" /\ sub.next_delivery_date <= Today

(* C11: one run of the renewal sweep leaves, for every subscription that   *)
(* was active with next_delivery_date <= today, a new order for its        *)
(* product and quantity, and its next_delivery_date advanced by exactly    *)
(* frequency_days.                                                         *)
C11_SweepRenewsDue ==
    [][process_subscription_renewals(TRUE) =>
          \A k \in 1..Len(subscriptions) :
              is_due(subscriptions[k]) =>
                  /\ \E j \in (Len(orders) + 1)..Len(orders') :
                        /\ orders'[j].user_id = subscriptions[k].user_id
                        /\ \E l \in 1..Len(orders'[j].items) :
                              /\ orders'[j].items[l].id = subscriptions[k].product_id
                              /\ orders'[j].items[l].quantity = subscriptions[k].quantity
                  /\ subscriptions'[k].next_delivery_date =
                        subscriptions[k].next_delivery_date
                          + subscriptions[k].frequency_days]_vars

(* C13: a button of the order conversation or of the subscribe             *)
(* conversation pressed by a user who has no session is answered with the  *)
(* session-expired text and changes nothing: no session is stored, no      *)
(* order and no subscription is written.                                   *)
C13_NoSessionNoEffect ==
    [][\A u \in TelegramIds :
          (/\ session_of(u) = NoSession
           /\ answered' # answered
           /\ answered'.user = u)
          => (/\ reply'[u] = "session_expired"
              /\ user_states' = user_states
              /\ orders' = orders
              /\ subscriptions' = subscriptions)]_vars

(* a subscribe button was pressed by a user who has a subscription and no  *)
(* session, and got the session-expired text                               *)
C13_Witness ==
    \E u \in TelegramIds :
        /\ session_of(u) = NoSession
        /\ answered.user = u
        /\ answered.kind \in SubKinds
        /\ reply[u] = "session_expired"
        /\ \E k \in 1..Len(subscriptions) : subscriptions[k].user_id = users[u]

(* a slot id of the form _generate_time_slots writes *)
well_formed(slot_id) ==
    /\ Len(slot_id) = 2
    /\ slot_id[1].k = "date"
    /\ slot_id[2].k = "range"
    /\ slot_id[2].b = slot_id[2].a + SlotHours

(* C14: the slot step stores the date and the two-hour bracket that the    *)
(* picked slot id encodes; it stores the default (today, 09:00-11:00) only *)
(* for a slot id that is malformed.                                        *)
C14_SlotStoredAsPicked ==
    [][\A u \in TelegramIds :
          (/\ session_of(u).state = "delivery_slot"
           /\ user_states'[u].state = "payment_method")
          => LET picked == user_states'[u].selected_slot
                 after == user_states'[u]
             IN  /\ well_formed(picked) =>
                       /\ after.delivery_date = picked[1].a
                       /\ after.time_slot = << picked[2].a, picked[2].b >>
                 /\ (after.delivery_date = Today /\ after.time_slot = DefaultTimeSlot)
                       => (\/ ~well_formed(picked)
                           \/ picked = slot_id_of(Today, DefaultTimeSlot[1]))]_vars

card_order_committed == \E k \in 1..Len(orders) : orders[k].payment_method = "card"

(* C15: no card order is committed before the card confirmation was given, *)
(* and once the user who was asked for it has answered 'paid' the flow     *)
(* goes on to the commit: the card order is eventually committed.          *)
C15_CardOrderCommitted ==
    /\ [](\A i \in InFlight :
             tasks[i].sess.payment_method = "card" => tasks[i].sess.card_paid = "true")
    /\ \A u \in Talkers :
          (/\ session_of(u).state = "confirm"
           /\ session_of(u).payment_method = "card"
           /\ answered = [user |-> u, kind |-> "text_paid"])
          ~> card_order_committed

(* a step of one of the handlers that run for user a *)
ActsAs(a) ==
    \/ OrderCommand(a, TRUE)
    \/ SessionExpired(a, "order_product")
    \/ SelectProduct(a, 1)
    \/ SubscribeCommand(a)
    \/ \E kind \in SubKinds : SubSessionExpired(a, kind)
    \/ SubProduct(a, 1)
    \/ \E d \in Frequencies : SubFrequency(a, d)
    \/ SubQuantity(a, 1)
    \/ \E ok \in BOOLEAN :
          \E k \in 1..Len(subscriptions) : SubCancel(a, subscriptions[k].id, ok)
    \/ \E kind \in SubKinds : SubIgnored(a, kind)
    \/ StartAddAddress(a)
    \/ StartEditName(a)

(* C16: a step of a handler that runs for user a neither creates, changes  *)
(* nor deletes the session the handlers read for another user b.           *)
C16_OwnSessionOnly ==
    [][\A a \in TelegramIds :
          ActsAs(a) =>
              \A b \in TelegramIds \ {a} : user_states'[b] = user_states[b]]_vars

(* C17: a line is appended to the cart only by a quantity action taken in  *)
(* the state select_quantity with a product recorded in the session; a     *)
(* quantity action taken in any other state changes neither the cart nor   *)
(* the state.                                                              *)
C17_QuantityOnlyAfterProduct ==
    [][\A u \in TelegramIds :
          /\ Len(user_states'[u].cart) > Len(session_of(u).cart)
                => /\ session_of(u).state = "select_quantity"
                   /\ session_of(u).selected_product # NoProduct
                   /\ session_of(u).selected_product.id \in Products
                   /\ answered' = [user |-> u, kind |-> "order_qty"]
          /\ (/\ answered' # answered
              /\ answered' = [user |-> u, kind |-> "order_qty"]
              /\ session_of(u).state # "select_quantity")
                => /\ user_states'[u] = user_states[u]
                   /\ orders' = orders]_vars

(* a quantity button of an earlier message pressed after 'add more', in    *)
(* the state select_product: the cart still has its one line               *)
C17_Witness ==
    \E u \in TelegramIds :
        /\ answered = [user |-> u, kind |-> "order_qty"]
        /\ session_of(u).state = "select_product"
        /\ Len(session_of(u).cart) = 1
        /\ reply[u] = "select_product"

is_prefix(a, b) == Len(a) <= Len(b) /\ SubSeq(b, 1, Len(a)) = a

(* C18: 'add more' in the state cart moves the session to select_product   *)
(* and leaves the cart as it was; as long as a session is neither deleted  *)
(* nor replaced by a new /order, the cart of every step is the cart before *)
(* it with lines added at the end.                                         *)
C18_AddMoreKeepsCart ==
    [][\A u \in TelegramIds :
          /\ (/\ session_of(u).state = "cart"
              /\ answered' # answered
              /\ answered' = [user |-> u, kind |-> "order_add_more"])
                => /\ user_states'[u].state = "select_product"
                   /\ user_states'[u].cart = session_of(u).cart
          /\ (/\ session_of(u) # NoSession
              /\ user_states'[u] # NoSession
              /\ ~ \E t \in TelegramIds : OrderCommand(t, TRUE))
                => is_prefix(session_of(u).cart, user_states'[u].cart)]_vars

(* the second round of 'add more': two lines in the cart, back in          *)
(* select_product                                                          *)
C18_Witness ==
    \E u \in TelegramIds :
        /\ answered = [user |-> u, kind |-> "order_add_more"]
        /\ session_of(u).state = "select_product"
        /\ Len(session_of(u).cart) = 2

PastCartStates == {"SELECT_ADDRESS", "delivery_slot", "payment_method", "confirm"}

(* C19: 'proceed' in the state cart by a user who has no saved address     *)
(* leaves the session in cart with its cart unchanged; a session goes past *)
(* the cart only from the cart and only when its user has a saved address, *)
(* it is at the slot step or later only with a selected address, and no    *)
(* order is committed without one.                                         *)
C19_NoAddressNoProgress ==
    /\ [][\A u \in TelegramIds :
             (/\ session_of(u).state = "cart"
              /\ addresses[users[u]] = {}
              /\ answered' # answered
              /\ answered' = [user |-> u, kind |-> "order_delivery"])
             => (/\ user_states'[u] = user_states[u]
                 /\ reply'[u] = "no_addresses"
                 /\ orders' = orders)]_vars
    /\ [][\A u \in TelegramIds :
             (/\ user_states'[u].state \in PastCartStates
              /\ session_of(u).state \notin PastCartStates)
             => (/\ session_of(u).state = "cart"
                 /\ addresses[users[u]] # {})]_vars
    /\ [](\A u \in TelegramIds :
             session_of(u).state \in PastCartStates \ {"SELECT_ADDRESS"}
                 => session_of(u).selected_address_id # 0)
    /\ [](\A k \in 1..Len(orders) : orders[k].delivery_address_id # 0)

(* 'proceed' was pressed with no saved address: still in cart, cart kept *)
C19_Witness ==
    \E u \in TelegramIds :
        /\ answered = [user |-> u, kind |-> "order_delivery"]
        /\ reply[u] = "no_addresses"
        /\ session_of(u).state = "cart"
        /\ session_of(u).cart # <<>>
        /\ addresses[users[u]] = {}

day_of(slot) == slot.start_time \div HoursPerDay

(* C20: the slots generated on any day are, for each of the 7 days from   *)
(* that day on, back-to-back two-hour brackets: no two slots of a day      *)
(* overlap, each slot starts where the one before it ends, no slot ends    *)
(* after the daily end hour, and all slot ids are distinct.                *)
C20_BackToBackSlots ==
    LET slots == generate_time_slots(Today)
    IN  /\ \A d \in Today..(Today + LookaheadDays - 1) :
              \E k \in 1..Len(slots) : day_of(slots[k]) = d
        /\ \A k \in 1..Len(slots) :
              /\ slots[k].end_time = slots[k].start_time + SlotHours
              /\ slots[k].end_time <= day_of(slots[k]) * HoursPerDay + EndHour
        /\ \A j, k \in 1..Len(slots) :
              (j < k /\ day_of(slots[j]) = day_of(slots[k]))
              => slots[j].end_time <= slots[k].start_time
        /\ \A k \in 1..(Len(slots) - 1) :
              day_of(slots[k]) = day_of(slots[k + 1])
              => slots[k + 1].start_time = slots[k].end_time
        /\ \A j, k \in 1..Len(slots) :
              j # k => slots[j].slot_id # slots[k].slot_id

(* where the saved address lies, in km from the origin: address a at 4a km *)
address_km(a) == 4 * a

(* C21: the delivery fee the address step records in the draft is          *)
(* 5000 + 500 * (the distance in km between the chosen address and the     *)
(* origin): an address 4 km away gives 7000.                               *)
C21_FeeFromChosenAddress ==
    \A u \in TelegramIds :
        session_of(u).delivery_fee # NoFee =>
            session_of(u).delivery_fee =
                BaseFee + FeePerKm * geodesic_km(address_km(session_of(u).selected_address_id),
                                                 HandlerWarehouseLocation)

fee_call_bad ==
    \/ fee_call.fails
    \/ fee_call.user_location = BadLocation
    \/ fee_call.warehouse_location = BadLocation

C24_CancelInAnySession ==
    [][\A u \in TelegramIds :
          (/\ answered' # answered
           /\ answered' = [user |-> u, kind |-> "sub_cancel"]
           /\ subscriptions # <<>>
           /\ reply'[u] # "subscription_cancel_failed")
          => \E k \in 1..Len(subscriptions) :
                subscriptions'[k].status = "cancelled"]_vars

(* C25: when a cash commit has sent the success text, the order it         *)
(* inserted has status pending and there is a delivery record for it with  *)
(* the date and the bracket of the draft.                                  *)
C25_CashOrderPendingWithDelivery ==
    \A i \in InFlight :
        (/\ tasks[i].pc = "del"
         /\ tasks[i].order # 0
         /\ tasks[i].sess.payment_method = "cash"
         /\ reply[tasks[i].user] = "order_success")
        => /\ orders[tasks[i].order].status = "pending"
           /\ \E k \in 1..Len(deliveries) :
                 /\ deliveries[k].order_id = tasks[i].order
                 /\ deliveries[k].scheduled_date = tasks[i].sess.delivery_date
                 /\ deliveries[k].scheduled_time_slot = tasks[i].sess.time_slot

(* the place of a status on the way pending ... delivered *)
status_rank(st) ==
    CASE st = "pending" -> 1
      [] st = "confirmed" -> 2
      [] st = "preparing" -> 3
      [] st = "out_for_delivery" -> 4
      [] st = "delivered" -> 5
      [] OTHER -> 0

C29_DeliveryRoleOnly ==
    [][\A u \in TelegramIds :
          (answered' # answered /\ answered'.user = u /\ ~is_delivery_person(u))
          => /\ reply'[u] \notin {"my_deliveries", "no_deliveries", "status_updated"}
             /\ deliveries' = deliveries
             /\ \A k \in 1..Len(orders) :
                   orders[k].status # "delivered" => orders'[k].status # "delivered"]_vars

(* C27: the balance of a user grows only by the reward of a commit, which  *)
(* is 5% of the total of that commit and is credited once; and a commit    *)
(* whose loyalty debit is refused, or whose card intent fails, does not go *)
(* on to the reward.                                                       *)
C27_PointsOnlyAfterPayment ==
    [][/\ \A r \in RowIds :
             loyalty_points'[r] > loyalty_points[r] =>
                 \E i \in TaskIds :
                     /\ tasks[i].pc = "points" /\ tasks'[i].pc = "del"
                     /\ users[tasks[i].user] = r
                     /\ loyalty_points'[r] =
                           loyalty_points[r] + reward_points(task_total(tasks[i]))
       /\ \A i \in TaskIds :
             (/\ tasks[i].pc = "payment"
              /\ tasks'[i].pc # "payment"
              /\ \/ /\ tasks[i].sess.payment_method = "loyalty"
                    /\ ~process_loyalty_payment(loyalty_points[users[tasks[i].user]],
                                                task_total(tasks[i])).ok
                 \/ /\ tasks[i].sess.payment_method = "card"
                    /\ reply'[tasks[i].user] = "order_error")
             => tasks'[i].pc # "points"]_vars

(* C28: a text sent while a typed quantity is awaited is taken as the      *)
(* quantity only when it is a positive integer; a text that is not a       *)
(* number, zero or a negative number is answered with a re-prompt, leaves  *)
(* the recorded quantity and the rest of the draft as they were, and the   *)
(* quantity is still awaited.                                              *)
C28_OnlyPositiveQuantity ==
    [][\A text \in Texts :
          (user_data.awaiting_custom_quantity /\ HandleMessageQuantity(1, text))
          => LET n == int_of(text)
             IN  /\ (n.ok /\ n.value > 0)
                       => /\ user_data'.quantity = n.value
                          /\ ~user_data'.awaiting_custom_quantity
                 /\ ~(n.ok /\ n.value > 0)
                       => /\ reply'[1] \in {"valid_number", "valid_positive_number"}
                          /\ user_data' = user_data
                          /\ user_data'.awaiting_custom_quantity
                          /\ orders' = orders
                 /\ user_data'.quantity # user_data.quantity
                       => user_data'.quantity > 0]_vars

(* a quantity of 2 was recorded by a button, then a quantity was typed and *)
(* refused as not positive: 2 is still recorded and a quantity is awaited  *)
C28_Witness ==
    /\ user_data.awaiting_custom_quantity
    /\ user_data.quantity = 2
    /\ user_data.selected_product # 0
    /\ answered = [user |-> 1, kind |-> "text"]
    /\ reply[1] = "valid_positive_number"

(* C30: an address picked when the slot lookup returns no slot leaves the  *)
(* session as it was before the pick, in SELECT_ADDRESS; a session is in   *)
(* delivery_slot only with a delivery fee and the offered slots recorded.  *)
C30_NoSlotsNoAdvance ==
    /\ [][\A u \in TelegramIds :
             (/\ session_of(u).state = "SELECT_ADDRESS"
              /\ answered' = [user |-> u, kind |-> "select_addr"]
              /\ get_available_slots(orders, now) = <<>>)
             => user_states'[u] = user_states[u]]_vars
    /\ [](\A u \in TelegramIds :
             session_of(u).state = "delivery_slot"
                 => /\ session_of(u).delivery_fee # NoFee
                    /\ session_of(u).slots # <<>>)

----------------------------------------------------------------------------
(* C31: the session that /order creates is the one the button handler     *)
(* reads: when the last message to a user is the product list of /order,  *)
(* the product button that user presses is accepted and the conversation  *)
(* moves to select_quantity, whatever the row id and the telegram id of   *)
(* the user are.                                                          *)
C31_OrderSessionIsRead ==
    [][\A u \in TelegramIds :
          ( /\ reply[u] = "select_product"
            /\ SessionExpired(u, "order_product") \/ SelectProduct(u, 1) )
          => /\ user_states'[u].state = "select_quantity"
             /\ reply'[u] = "select_quantity"]_vars

----------------------------------------------------------------------------
(* C32: every button the order conversation shows is delivered to the     *)
(* order handler: an address button pressed while the draft is in         *)
(* SELECT_ADDRESS moves it to the slot step.                              *)
C32_AddressButtonReachesHandler ==
    [][\A u \in TelegramIds :
          ( /\ session_of(u).state = "SELECT_ADDRESS"
            /\ "select_addr" \in Keyboard(u)
            /\ Press(u, "select_addr") )
          => user_states'[u].state = "delivery_slot"]_vars

(* no draft of SpecRouting is past the address step *)
RoutingStopsAtAddress ==
    \A k \in Keys :
        user_states[k].state \notin {"delivery_slot", "payment_method", "confirm"}

----------------------------------------------------------------------------
(* C33: an order draft is discarded only by a cancel, by the commit or by *)
(* a new /order: a step of /subscribe, of the add-address button or of    *)
(* the edit-name button leaves every order draft as it was.               *)
OrderStates == {"select_product", "select_quantity", "cart", "SELECT_ADDRESS",
                "delivery_slot", "payment_method", "confirm"}

C33_DraftKeptByOtherConversations ==
    [][(\E u \in TelegramIds :
            SubscribeCommand(u) \/ StartAddAddress(u) \/ StartEditName(u))
       => \A k \in Keys :
            user_states[k].state \in OrderStates => user_states'[k] = user_states[k]]_vars

----------------------------------------------------------------------------
(* C34: a session in the Confirm state holds a complete draft: a cart     *)
(* that is not empty, a selected address, a selected slot with its        *)
(* delivery date and time bracket, a delivery fee and a payment method.   *)
C34_ConfirmDraftComplete ==
    \A k \in Keys :
        user_states[k].state = "confirm"
        => /\ user_states[k].cart # <<>>
           /\ user_states[k].selected_address_id # 0
           /\ user_states[k].selected_slot # NoSlotId
           /\ user_states[k].delivery_date # NoDate
           /\ user_states[k].time_slot # <<>>
           /\ user_states[k].delivery_fee # NoFee
           /\ user_states[k].payment_method # ""

----------------------------------------------------------------------------
(* C35: stock is never oversold: the total quantity of a product across   *)
(* the committed orders does not exceed the stock the product had at the  *)
(* start (MaxQty units of each product, never raised above that).         *)
RECURSIVE quantity_in(_, _)
quantity_in(items, p) ==
    IF items = <<>> THEN 0
    ELSE (IF Head(items).id = p THEN Head(items).quantity ELSE 0)
         + quantity_in(Tail(items), p)

RECURSIVE quantity_sold(_, _)
quantity_sold(ords, p) ==
    IF ords = <<>> THEN 0
    ELSE quantity_in(Head(ords).items, p) + quantity_sold(Tail(ords), p)

C35_StockNeverOversold ==
    \A p \in Products : quantity_sold(orders, p) <= MaxQty

(* the step that inserts an order leaves the stock of every product as it is *)
CommitLeavesStock ==
    [][Len(orders') > Len(orders) => stock' = stock]_vars

----------------------------------------------------------------------------
(* C36: the loyalty balance of a user is never negative, also when two    *)
(* debits of the same user interleave between the read of the balance and *)
(* its update.                                                            *)
C36_BalanceNeverNegative ==
    \A r \in RowIds : loyalty_points[r] >= 0

----------------------------------------------------------------------------
(* C37: no delivery person holds two deliveries for the same date and     *)
(* time bracket, also when two calls of schedule_delivery interleave      *)
(* between the lookup of a free delivery person and the insert.           *)
C37_OneDeliveryPerPersonAndBracket ==
    \A j, k \in 1..Len(deliveries) :
        ( /\ deliveries[j].delivery_person_id = deliveries[k].delivery_person_id
          /\ deliveries[j].scheduled_date = deliveries[k].scheduled_date
          /\ deliveries[j].scheduled_time_slot = deliveries[k].scheduled_time_slot )
        => j = k

----------------------------------------------------------------------------
(* C38: a subscription is renewed at most once per due date: one that the *)
(* last sweep selected is not due any more, so that the next sweep of the *)
(* same day does not select it again.                                     *)
C38_RenewedOncePerDueDate ==
    LET due_renewals == get_due_renewals(subscriptions, Today)
    IN  \A k \in 1..Len(due_renewals) : due_renewals[k].id \notin notified

====
